---- MODULE Spec2Model ----
(***************************************************************************)
(* BtrUp: backup with Btrfs snapshots and multiple Borg repositories.      *)
(*                                                                         *)
(* Instants are integers: one unit is one tick of the configured datetime  *)
(* format (the smallest step two formatted names can differ by).  The wall *)
(* clock is finer: Resolution clock units make one tick.  Intervals are    *)
(* positive numbers of ticks.                                              *)
(***************************************************************************)
EXTENDS Integers, Sequences, FiniteSets, TLC

(***************************************************************************)
(* Bounds of the model.                                                    *)
(***************************************************************************)
\* Instants of the pure-function inputs range over -1..MaxInstant.
MaxInstant == 3
\* Longest list of available instants handed to the retention functions.
MaxLen == 3
\* Longest bucket width, in ticks.
MaxInterval == 2
\* Largest amount of a rule (0 is accepted by KeepConfig, which checks nothing).
MaxAmount == 3
\* Longest listing, in lines, handed to the parsers.
MaxLines == 2

Instants == (0 - 1)..MaxInstant
Origins == {0, 1}
Intervals == 1..MaxInterval
Amounts == 0..MaxAmount

RECURSIVE SeqsUpTo(_, _)
SeqsUpTo(S, n) ==
    IF n = 0 THEN {<<>>}
    ELSE LET shorter == SeqsUpTo(S, n - 1)
         IN  shorter \cup {Append(s, x) : s \in {t \in shorter : Len(t) = n - 1}, x \in S}

Range(s) == {s[i] : i \in DOMAIN s}

(***************************************************************************)
(* Python helpers used by the retention functions.                         *)
(***************************************************************************)
\* min(a, b)
Min2(a, b) == IF b < a THEN b ELSE a

\* sorted(S) for a collection of pairwise distinct integers.
RECURSIVE Sorted(_)
Sorted(S) ==
    IF S = {} THEN <<>>
    ELSE LET m == CHOOSE x \in S : \A y \in S : x <= y
         IN  <<m>> \o Sorted(S \ {m})

\* s[start:], with Python's treatment of a negative or too large start.
SliceFrom(s, start) ==
    LET n == Len(s)
        st == IF start < 0
              THEN (IF start + n < 0 THEN 0 ELSE start + n)
              ELSE (IF start > n THEN n ELSE start)
    IN  SubSeq(s, st + 1, n)

\* (dt - origin) // interval: timedelta floor division.
\* Division that truncates toward zero.
BinIdxTruncating(dt, origin, interval) ==
    IF dt >= origin THEN (dt - origin) \div interval
    ELSE 0 - ((origin - dt) \div interval)
BinIdx(dt, origin, interval) == (dt - origin) \div interval

\* The loop of select_relevant: bins maps a bin index to the oldest datetime
\* seen so far in that bin.
RECURSIVE FillBins(_, _, _, _)
FillBins(available, origin, interval, bins) ==
    IF available = <<>> THEN bins
    ELSE LET dt == Head(available)
             bin_idx == BinIdx(dt, origin, interval)
             cur == IF bin_idx \in DOMAIN bins THEN bins[bin_idx] ELSE dt
             upd == [k \in (DOMAIN bins) \cup {bin_idx} |->
                        IF k = bin_idx THEN Min2(cur, dt) ELSE bins[k]]
         IN  FillBins(Tail(available), origin, interval, upd)

\* A plausible slip: the newest datetime of a bin is kept instead of the oldest.
RECURSIVE FillBinsNewest(_, _, _, _)
FillBinsNewest(available, origin, interval, bins) ==
    IF available = <<>> THEN bins
    ELSE LET dt == Head(available)
             bin_idx == BinIdx(dt, origin, interval)
             cur == IF bin_idx \in DOMAIN bins THEN bins[bin_idx] ELSE dt
             upd == [k \in (DOMAIN bins) \cup {bin_idx} |->
                        IF k = bin_idx THEN (IF cur < dt THEN dt ELSE cur) ELSE bins[k]]
         IN  FillBinsNewest(Tail(available), origin, interval, upd)

EmptyDict == [k \in {} |-> 0]

\* A plausible slip: bins[len(bins) - amount:], whose start goes negative when
\* amount exceeds the number of bins.
select_relevant_lenslice(available, origin, interval, amount) ==
    LET bins == FillBins(available, origin, interval, EmptyDict)
        vals == Sorted({bins[k] : k \in DOMAIN bins})
    IN  SliceFrom(vals, Len(vals) - amount)

\* A plausible slip: bins[:amount], the oldest bins instead of the most recent.
select_relevant_oldestbins(available, origin, interval, amount) ==
    LET bins == FillBins(available, origin, interval, EmptyDict)
        vals == Sorted({bins[k] : k \in DOMAIN bins})
    IN  SubSeq(vals, 1, IF amount < Len(vals) THEN amount ELSE Len(vals))

\* A plausible slip: max() instead of min() in the loop.
select_relevant_newest(available, origin, interval, amount) ==
    LET bins == FillBinsNewest(available, origin, interval, EmptyDict)
    IN  SliceFrom(Sorted({bins[k] : k \in DOMAIN bins}), 0 - amount)

select_relevant(available, origin, interval, amount) ==
    LET bins == FillBins(available, origin, interval, EmptyDict)
    IN  SliceFrom(Sorted({bins[k] : k \in DOMAIN bins}), 0 - amount)

\* The loop of grandfatherson over keeps, a sequence of <<interval, amount>>.
RECURSIVE KeepLoop(_, _, _, _)
KeepLoop(available, origin, keeps, keep_dts) ==
    IF keeps = <<>> THEN keep_dts
    ELSE KeepLoop(available, origin, Tail(keeps),
                  keep_dts \cup Range(select_relevant(available, origin,
                                                      Head(keeps)[1], Head(keeps)[2])))

\* A plausible slip: prune is computed against the last rule only.
grandfatherson_lastrule(available, origin, keeps) ==
    LET keep_dts == KeepLoop(available, origin, keeps, {})
        last == IF keeps = <<>> THEN {}
                ELSE Range(select_relevant(available, origin,
                                           keeps[Len(keeps)][1], keeps[Len(keeps)][2]))
    IN  [keep |-> keep_dts, prune |-> Range(available) \ last]

grandfatherson(available, origin, keeps) ==
    LET keep_dts == KeepLoop(available, origin, keeps, {})
    IN  [keep |-> keep_dts, prune |-> Range(available) \ keep_dts]

(***************************************************************************)
(* Names and listings.  A name is prefix + suffix.  The suffix is          *)
(* "canon" (what strftime writes for instant t), "alt" (another spelling   *)
(* strptime reads as t, such as a field without its leading zero) or "bad" *)
(* (strptime raises ValueError).                                           *)
(***************************************************************************)
SnapPrefix == "snap."
ArchPrefix == "arch."

Name(pfx, form, t) == [pfx |-> pfx, form |-> form, t |-> t]

\* datetime.strftime(datetime_format)
strftime(dt) == [form |-> "canon", t |-> dt]

\* parse_suffix: [err, dt]
parse_suffix(name, prefix) ==
    IF name.pfx # prefix THEN [err |-> TRUE, dt |-> 0]
    ELSE IF name.form = "bad" THEN [err |-> TRUE, dt |-> 0]
    ELSE [err |-> FALSE, dt |-> name.t]

\* A Python dict, in insertion order: a sequence of <<key, value>> with
\* pairwise distinct keys.
DictKeys(d) == {d[i][1] : i \in DOMAIN d}
DictKeyList(d) == [i \in DOMAIN d |-> d[i][1]]
DictGet(d, k) == LET i == CHOOSE j \in DOMAIN d : d[j][1] = k IN d[i][2]
DictSet(d, k, v) ==
    IF k \in DictKeys(d)
    THEN [i \in DOMAIN d |-> IF d[i][1] = k THEN <<k, v>> ELSE d[i]]
    ELSE Append(d, <<k, v>>)
\* del d[k] that deletes nothing.
DictDelNothing(d, k) == d
DictDel(d, k) == SelectSeq(d, LAMBDA kv : kv[1] # k)

\* parse_subvolumes: the last word of every non-empty line is a subvolume;
\* one without the prefix is skipped.  [err, pool]
RECURSIVE SubvolLoop(_, _, _)
SubvolLoop(lines, prefix, snapshots) ==
    IF lines = <<>> THEN [err |-> FALSE, pool |-> snapshots]
    ELSE LET words == Head(lines)
         IN  IF Len(words) = 0 THEN SubvolLoop(Tail(lines), prefix, snapshots)
             ELSE LET subvol == words[Len(words)]
                  IN  IF subvol.pfx # prefix
                      THEN SubvolLoop(Tail(lines), prefix, snapshots)
                      ELSE LET p == parse_suffix(subvol, prefix)
                           IN  IF p.err THEN [err |-> TRUE]
                               ELSE SubvolLoop(Tail(lines), prefix,
                                               DictSet(snapshots, p.dt, subvol))

\* A plausible slip: a malformed suffix is skipped like a foreign subvolume.
RECURSIVE SubvolLoopLenient(_, _, _)
SubvolLoopLenient(lines, prefix, snapshots) ==
    IF lines = <<>> THEN [err |-> FALSE, pool |-> snapshots]
    ELSE LET words == Head(lines)
         IN  IF Len(words) = 0 THEN SubvolLoopLenient(Tail(lines), prefix, snapshots)
             ELSE LET subvol == words[Len(words)]
                      p == parse_suffix(subvol, prefix)
                  IN  IF p.err
                      THEN SubvolLoopLenient(Tail(lines), prefix, snapshots)
                      ELSE SubvolLoopLenient(Tail(lines), prefix,
                                             DictSet(snapshots, p.dt, subvol))

parse_subvolumes_lenient(output, prefix) == SubvolLoopLenient(output, prefix, <<>>)

parse_subvolumes(output, prefix) == SubvolLoop(output, prefix, <<>>)

\* parse_archives: the first word of every non-empty line is an archive; one
\* without the prefix raises ValueError.  [err, pool]
RECURSIVE ArchiveLoop(_, _, _)
ArchiveLoop(lines, prefix, archives) ==
    IF lines = <<>> THEN [err |-> FALSE, pool |-> archives]
    ELSE LET words == Head(lines)
         IN  IF Len(words) = 0 THEN ArchiveLoop(Tail(lines), prefix, archives)
             ELSE LET archive == words[1]
                  IN  IF archive.pfx # prefix THEN [err |-> TRUE]
                      ELSE LET p == parse_suffix(archive, prefix)
                           IN  IF p.err THEN [err |-> TRUE]
                               ELSE ArchiveLoop(Tail(lines), prefix,
                                                DictSet(archives, p.dt, archive))

parse_archives(output, prefix) == ArchiveLoop(output, prefix, <<>>)

(***************************************************************************)
(* The pure functions, applied to inputs drawn from bounded sets.          *)
(***************************************************************************)
VARIABLES
    fn,     \* the function under test
    arg,    \* its arguments
    ret     \* [done |-> FALSE] before the call, then [done |-> TRUE, val |-> result]

pvars == <<fn, arg, ret>>

(***************************************************************************)
(* One invocation of main after the other: the configuration, the flags of *)
(* the invocation, the world outside the program, and the program itself.  *)
(***************************************************************************)
VARIABLES
    keeps,      \* config.keeps: a sequence of [interval, amount, backup]
    runs,       \* the flags [dry_run, skip_snapshot] of every invocation so far
    disk,       \* the subvolumes on the Btrfs volume: a set of names
    repo,       \* repository -> the set of archive names it holds
    reach,      \* repository -> whether it can be reached
    mnt,        \* [dir, mounts]: the mount point exists; mounts stacked on it
    budget,     \* how many more commands may fail for no visible reason
    pc,         \* where the program is
    loc,        \* the local variables of the program
    calls       \* what the program did to the world so far, in order

rvars == <<keeps, runs, disk, repo, reach, mnt, budget, pc, loc, calls>>

\* The invocation under way, and its flags (parse_args).
runNo == Len(runs)
args == runs[Len(runs)]
vars == <<fn, arg, ret, keeps, runs, disk, repo, reach, mnt, budget, pc, loc, calls>>

Rules == Intervals \X Amounts
RuleLists == {<<>>} \cup {<<r>> : r \in Rules} \cup {<<r, s>> : r \in Rules, s \in Rules}
AvailableLists == SeqsUpTo(Instants, MaxLen)

\* The words of a listing: names with the prefix in every form, and a foreign one.
Tokens(prefix, foreign) ==
    {Name(prefix, f, 0) : f \in {"canon", "alt", "bad"}}
        \cup {Name(prefix, "canon", 1), Name(foreign, "canon", 0)}
Lines(T) == {<<>>} \cup {<<a>> : a \in T} \cup {<<a, b>> : a \in T, b \in T}
Listings(prefix, foreign) == SeqsUpTo(Lines(Tokens(prefix, foreign)), MaxLines)

\* test_grandfatherson_tenminutely, in minutes after 2022-05-05 16:30 (the
\* origin, midnight, is 990 minutes earlier: a whole number of intervals).
TenMinutely ==
    [available |-> <<5, 15, 25, 27, 51, 55, 62>>, origin |-> 0 - 990, keeps |-> << <<10, 3>> >>]

\* The program is not running while a pure function is looked at.
Idle ==
    /\ keeps = <<>> /\ runs = <<>>
    /\ disk = {} /\ repo = <<>> /\ reach = <<>>
    /\ mnt = [dir |-> FALSE, mounts |-> 0] /\ budget = 0
    /\ pc = "idle" /\ loc = <<>> /\ calls = <<>>

InitPure ==
    /\ Idle
    /\ fn \in {"select_relevant", "grandfatherson", "parse_subvolumes", "parse_archives"}
    /\ arg \in CASE fn = "select_relevant" ->
                      [available : AvailableLists, origin : Origins,
                       interval : Intervals, amount : Amounts]
                 [] fn = "grandfatherson" ->
                      [available : AvailableLists, origin : Origins, keeps : RuleLists]
                          \cup {TenMinutely}
                 [] fn = "parse_subvolumes" ->
                      [output : Listings(SnapPrefix, ArchPrefix), prefix : {SnapPrefix}]
                 [] fn = "parse_archives" ->
                      [output : Listings(ArchPrefix, SnapPrefix), prefix : {ArchPrefix}]
    /\ ret = [done |-> FALSE]

CallSelectRelevant ==
    /\ fn = "select_relevant" /\ ~ret.done
    /\ ret' = [done |-> TRUE,
               val |-> select_relevant(arg.available, arg.origin, arg.interval, arg.amount)]
    /\ UNCHANGED <<fn, arg>> /\ UNCHANGED rvars

CallGrandfatherson ==
    /\ fn = "grandfatherson" /\ ~ret.done
    /\ ret' = [done |-> TRUE, val |-> grandfatherson(arg.available, arg.origin, arg.keeps)]
    /\ UNCHANGED <<fn, arg>> /\ UNCHANGED rvars

CallParseSubvolumes ==
    /\ fn = "parse_subvolumes" /\ ~ret.done
    /\ ret' = [done |-> TRUE, val |-> parse_subvolumes(arg.output, arg.prefix)]
    /\ UNCHANGED <<fn, arg>> /\ UNCHANGED rvars

CallParseArchives ==
    /\ fn = "parse_archives" /\ ~ret.done
    /\ ret' = [done |-> TRUE, val |-> parse_archives(arg.output, arg.prefix)]
    /\ UNCHANGED <<fn, arg>> /\ UNCHANGED rvars

NextPure ==
    \/ CallSelectRelevant
    \/ CallGrandfatherson
    \/ CallParseSubvolumes
    \/ CallParseArchives

SpecPure == InitPure /\ [][NextPure]_vars

(***************************************************************************)
(* The program: main, main_btrfs and main_borg, one step per command.      *)
(***************************************************************************)
\* Instants of snapshots and archives range over 0..MaxTick.
MaxTick == 2
\* Clock units per tick of the datetime format.
Resolution == 2
\* config.btrfs.pre and config.btrfs.post: how many commands each lists.
NPre == 1
NPost == 2
\* How many commands of the first invocation may fail for no visible reason.
MaxFaults == 1
\* config.time_origin
TimeOrigin == 1

Ticks == 0..MaxTick
Clock == 0..((MaxTick + 1) * Resolution - 1)
\* config.borg.repositories
Repositories == <<"r1", "r2">>

NoName == Name("", "bad", 0)
NoT == 0 - 1
Junk == Name("junk", "bad", 0)

Loc0 ==
    [phase |-> "btrfs", snapshots |-> <<>>, new_subvol |-> NoName, kept |-> "-", prune |-> <<>>, i |-> 0,
     exc |-> FALSE, dts_keep |-> {}, cands |-> <<>>, r |-> 0, archives |-> <<>>,
     todo |-> <<>>, dels |-> <<>>, removed |-> FALSE]

\* One entry of the log: the command (or directory operation), the
\* repository and the instant it is about, and how it ended: "ok", "fail"
\* (a non-zero exit status), "raise" (the command could not be started, or
\* the operation raised) or "skip" (dry run: nothing was run).
Call(op, r, t, res) == [op |-> op, repo |-> r, t |-> t, res |-> res, run |-> runNo]

\* run(cmd, dry_run): a dry run runs nothing and returns "".  Otherwise the
\* command ends as the world makes it end (natural), or fails for no visible
\* reason while the budget lasts.  subprocess.run is called without check,
\* so that a non-zero exit status ("fail") raises nothing.
Outcomes(dry_run, natural) ==
    IF dry_run THEN {"skip"}
    ELSE {natural} \cup (IF budget > 0 THEN {"fail", "raise"} ELSE {})
Cost(o, natural) == IF o = natural \/ o = "skip" THEN 0 ELSE 1

\* The orders in which a listing command may print a set of names.
Ascending(S) == [i \in 1..Cardinality(S) |->
                    CHOOSE n \in S : Cardinality({m \in S : m.t < n.t}) = i - 1]
Reverse(s) == [i \in DOMAIN s |-> s[Len(s) + 1 - i]]
\* btrfs subvolume list: "ID .. path <subvolume>"
SubvolListings(S) ==
    LET asc == [i \in 1..Cardinality(S) |-> <<Junk, Ascending(S)[i]>>]
    IN  {asc, Reverse(asc)}
\* borg list: "<archive> <date> [id]"
ArchiveListing(S) == [i \in 1..Cardinality(S) |-> <<Ascending(S)[i], Junk>>]

\* main, lines 272-276: main_borg runs when main_btrfs returned snapshots.
ReturnFromBtrfs(snapshots) == IF Len(snapshots) > 0 THEN "borg" ELSE "done"

KeepTuples == [k \in DOMAIN keeps |-> <<keeps[k].interval, keeps[k].amount>>]

\* Deletion in the order of the listing, not of the instants.
PruneOrderAsListed(prune_dts, snapshots) ==
    LET listed == SelectSeq(snapshots, LAMBDA kv : kv[1] \in prune_dts)
    IN  [i \in DOMAIN listed |-> listed[i][1]]

\* prune_old_btrfs_snapshots: for dt in sorted(prune_dts).
PruneOrder(prune_dts, snapshots) == Sorted(prune_dts)

\* A snapshot phase that prunes the listed pool when told to skip.
main_btrfs_pruned(snapshots) ==
    LET keep == grandfatherson(DictKeyList(snapshots), TimeOrigin, KeepTuples).keep
    IN  SelectSeq(snapshots, LAMBDA kv : kv[1] \in keep)

\* main_btrfs with args.skip_snapshot: the if statement is passed over and
\* the parsed listing is returned as it is.
main_btrfs_skipped(snapshots) == snapshots

\* main_btrfs up to its first command that changes something: list the
\* subvolumes, parse the listing, name the candidate and decide.
MainBtrfsList ==
    /\ pc = "start"
    /\ \E o \in Outcomes(FALSE, "ok"), output \in SubvolListings(disk), now \in Clock :
         LET stdout == IF o = "ok" THEN output ELSE <<>>
             parsed == parse_subvolumes(stdout, SnapPrefix)
         IN  /\ budget' = budget - Cost(o, "ok")
             /\ calls' = Append(calls, Call("subvolume list", "-", NoT, o))
             /\ IF o = "raise" \/ parsed.err
                THEN pc' = "aborted" /\ loc' = loc
                ELSE IF args.skip_snapshot
                THEN /\ loc' = [loc EXCEPT !.snapshots = main_btrfs_skipped(parsed.pool),
                                           !.kept = "skip"]
                     /\ pc' = ReturnFromBtrfs(main_btrfs_skipped(parsed.pool))
                ELSE LET new_subvol == Name(SnapPrefix, strftime(now \div Resolution).form,
                                            strftime(now \div Resolution).t)
                         new_dt == parse_suffix(new_subvol, SnapPrefix).dt
                         snapshots == DictSet(parsed.pool, new_dt, new_subvol)
                         gfs == grandfatherson(DictKeyList(snapshots), TimeOrigin, KeepTuples)
                     IN  \* The clock does not run behind the snapshots it named.
                         /\ \A k \in DictKeys(parsed.pool) : k <= new_dt
                         /\ IF new_dt \in gfs.keep
                            THEN /\ loc' = [loc EXCEPT !.snapshots = snapshots,
                                                       !.new_subvol = new_subvol,
                                                       !.kept = "yes",
                                                       !.prune = PruneOrder(gfs.prune, snapshots),
                                                       !.i = 1]
                                 /\ pc' = IF NPre > 0 THEN "pre" ELSE "snapshot"
                            ELSE LET pruned == PruneOrder(gfs.prune \ {new_dt}, snapshots)
                                     rest == DictDel(snapshots, new_dt)
                                 IN  /\ loc' = [loc EXCEPT !.snapshots = rest,
                                                           !.new_subvol = new_subvol,
                                                           !.kept = "no",
                                                           !.prune = pruned]
                                     /\ pc' = IF pruned = <<>> THEN ReturnFromBtrfs(rest)
                                              ELSE "prune"
    /\ UNCHANGED <<keeps, runs, disk, repo, reach, mnt>>

\* create_btrfs_snapshot without finally: an exception leaves at once.
AfterTryNoFinally(l) ==
    IF l.exc THEN "aborted"
    ELSE IF NPost > 0 THEN "post"
    ELSE IF l.prune = <<>> THEN ReturnFromBtrfs(l.snapshots) ELSE "prune"

\* create_btrfs_snapshot, the finally clause entered: the post commands, or
\* what follows them when there is none.
AfterTry(l) ==
    IF NPost > 0 THEN "post"
    ELSE IF l.exc THEN "aborted"
    ELSE IF l.prune = <<>> THEN ReturnFromBtrfs(l.snapshots) ELSE "prune"

\* create_btrfs_snapshot: one command of config.btrfs.pre.
PreHook ==
    /\ pc = "pre"
    /\ \E o \in Outcomes(args.dry_run, "ok") :
         /\ budget' = budget - Cost(o, "ok")
         /\ calls' = Append(calls, Call("pre", "-", loc.i, o))
         /\ IF o = "raise"
            THEN LET l == [loc EXCEPT !.exc = TRUE, !.i = 1]
                 IN  loc' = l /\ pc' = AfterTry(l)
            ELSE IF loc.i < NPre
            THEN loc' = [loc EXCEPT !.i = loc.i + 1] /\ pc' = "pre"
            ELSE loc' = [loc EXCEPT !.i = 1] /\ pc' = "snapshot"
    /\ UNCHANGED <<keeps, runs, disk, repo, reach, mnt>>

\* btrfs subvolume snapshot -r onto a path that holds a (read-only) snapshot
\* already exits with a non-zero status.
SnapshotOutcome(subvol) == IF subvol \in disk THEN "fail" ELSE "ok"

\* create_btrfs_snapshot: btrfs subvolume snapshot -r.
CreateSnapshot ==
    /\ pc = "snapshot"
    /\ \E o \in Outcomes(args.dry_run, SnapshotOutcome(loc.new_subvol)) :
         LET l == [loc EXCEPT !.exc = (o = "raise"), !.i = 1]
         IN  /\ budget' = budget - Cost(o, SnapshotOutcome(loc.new_subvol))
             /\ calls' = Append(calls, Call("subvolume snapshot", "-", loc.new_subvol.t, o))
             /\ disk' = IF o = "ok" THEN disk \cup {loc.new_subvol} ELSE disk
             /\ loc' = l
             /\ pc' = AfterTry(l)
    /\ UNCHANGED <<keeps, runs, repo, reach, mnt>>

\* create_btrfs_snapshot: one command of config.btrfs.post, in the finally
\* clause; after the last one a pending exception goes on.
PostHook ==
    /\ pc = "post"
    /\ \E o \in Outcomes(args.dry_run, "ok") :
         /\ budget' = budget - Cost(o, "ok")
         /\ calls' = Append(calls, Call("post", "-", loc.i, o))
         /\ IF o = "raise"
            THEN loc' = loc /\ pc' = "aborted"
            ELSE IF loc.i < NPost
            THEN loc' = [loc EXCEPT !.i = loc.i + 1] /\ pc' = "post"
            ELSE /\ loc' = loc
                 /\ pc' = IF loc.exc THEN "aborted"
                          ELSE IF loc.prune = <<>> THEN ReturnFromBtrfs(loc.snapshots)
                          ELSE "prune"
    /\ UNCHANGED <<keeps, runs, disk, repo, reach, mnt>>

\* prune_old_btrfs_snapshots: btrfs subvolume delete of the oldest instant
\* left to prune, then del snapshots[dt].
DeleteSnapshot ==
    /\ pc = "prune"
    /\ LET dt == Head(loc.prune)
           subvol == DictGet(loc.snapshots, dt)
           natural == IF subvol \in disk THEN "ok" ELSE "fail"
       IN  \E o \in Outcomes(args.dry_run, natural) :
             /\ budget' = budget - Cost(o, natural)
             /\ calls' = Append(calls, Call("subvolume delete", "-", dt, o))
             /\ disk' = IF o = "ok" THEN disk \ {subvol} ELSE disk
             /\ IF o = "raise"
                THEN loc' = loc /\ pc' = "aborted"
                ELSE LET rest == DictDel(loc.snapshots, dt)
                     IN  /\ loc' = [loc EXCEPT !.snapshots = rest, !.prune = Tail(loc.prune)]
                         /\ pc' = IF Tail(loc.prune) = <<>> THEN ReturnFromBtrfs(rest)
                                  ELSE "prune"
    /\ UNCHANGED <<keeps, runs, repo, reach, mnt>>

\* The keys of a dict that satisfy a test, in the dict's order.
DictFilter(d, Test(_)) == SelectSeq(d, LAMBDA kv : Test(kv[1]))
MaxOf(S) == CHOOSE x \in S : \A y \in S : y <= x

\* Every rule taken for backup-eligible.
BackupTuplesAll == KeepTuples

BackupTuples ==
    LET eligible == SelectSeq(keeps, LAMBDA k : k.backup)
    IN  [k \in DOMAIN eligible |-> <<eligible[k].interval, eligible[k].amount>>]

\* main_borg without its second guard: only an empty keep set stops it.
MainBorgUnguarded ==
    /\ pc = "borg"
    /\ LET dts_keep == grandfatherson(DictKeyList(loc.snapshots), TimeOrigin,
                                      BackupTuples).keep
           cands == DictFilter(loc.snapshots, LAMBDA dt : dt \in dts_keep)
       IN  IF dts_keep = {}
           THEN /\ loc' = [loc EXCEPT !.phase = "borg", !.dts_keep = dts_keep]
                /\ pc' = "done"
           ELSE /\ loc' = [loc EXCEPT !.phase = "borg", !.dts_keep = dts_keep,
                                      !.cands = cands, !.r = 1]
                /\ pc' = IF Len(Repositories) > 0 THEN "probe" ELSE "done"
    /\ UNCHANGED <<keeps, runs, disk, repo, reach, mnt, budget, calls>>

\* main_borg up to its loop over the repositories: the keep set of the rules
\* with backup = true, the two guards, the snapshots to back up.
MainBorg ==
    /\ pc = "borg"
    /\ LET dts_keep == grandfatherson(DictKeyList(loc.snapshots), TimeOrigin,
                                      BackupTuples).keep
           cands == DictFilter(loc.snapshots, LAMBDA dt : dt \in dts_keep)
       IN  IF dts_keep = {} \/ MaxOf(DictKeys(loc.snapshots)) \notin dts_keep
           THEN /\ loc' = [loc EXCEPT !.phase = "borg", !.dts_keep = dts_keep]
                /\ pc' = "done"
           ELSE /\ loc' = [loc EXCEPT !.phase = "borg", !.dts_keep = dts_keep,
                                      !.cands = cands, !.r = 1]
                /\ pc' = IF Len(Repositories) > 0 THEN "probe" ELSE "done"
    /\ UNCHANGED <<keeps, runs, disk, repo, reach, mnt, budget, calls>>

Repository == Repositories[loc.r]

\* check_borg_repository: False when run raises CalledProcessError; run
\* raises it for no exit status.
check_borg_repository(o) == o # "CalledProcessError"

\* main_borg: the loop goes to the next repository, or ends.
NextRepository(l) ==
    IF l.r < Len(Repositories)
    THEN [pc |-> "probe",
          loc |-> [l EXCEPT !.r = l.r + 1, !.archives = <<>>, !.todo = <<>>,
                            !.dels = <<>>, !.removed = FALSE]]
    ELSE [pc |-> "done", loc |-> l]

\* Pruning that deletes the archives of the snapshots to back up instead of
\* the others.
StartPruningKept(l) ==
    LET old == Sorted({dt \in DictKeys(l.archives) : dt \in DictKeys(l.cands)})
        dels == [i \in DOMAIN old |-> <<old[i], DictGet(l.archives, old[i])>>]
    IN  IF dels = <<>>
        THEN NextRepository([l EXCEPT !.removed = FALSE])
        ELSE [pc |-> "delete", loc |-> [l EXCEPT !.dels = dels, !.removed = TRUE]]

\* Pruning that does not tell main_borg that it removed something.
StartPruningSilent(l) ==
    LET old == Sorted({dt \in DictKeys(l.archives) : dt \notin DictKeys(l.cands)})
        dels == [i \in DOMAIN old |-> <<old[i], DictGet(l.archives, old[i])>>]
    IN  IF dels = <<>>
        THEN NextRepository([l EXCEPT !.removed = FALSE])
        ELSE [pc |-> "delete", loc |-> [l EXCEPT !.dels = dels, !.removed = FALSE]]

\* Pruning that begins with the newest archive.
StartPruningNewestFirst(l) ==
    LET old == Reverse(Sorted({dt \in DictKeys(l.archives) : dt \notin DictKeys(l.cands)}))
        dels == [i \in DOMAIN old |-> <<old[i], DictGet(l.archives, old[i])>>]
    IN  IF dels = <<>>
        THEN NextRepository([l EXCEPT !.removed = FALSE])
        ELSE [pc |-> "delete", loc |-> [l EXCEPT !.dels = dels, !.removed = TRUE]]

\* main_borg after the creations: prune_old_borg_archives begins with the
\* oldest listed archive that is not a snapshot to back up.
StartPruning(l) ==
    LET old == Sorted({dt \in DictKeys(l.archives) : dt \notin DictKeys(l.cands)})
        dels == [i \in DOMAIN old |-> <<old[i], DictGet(l.archives, old[i])>>]
    IN  IF dels = <<>>
        THEN NextRepository([l EXCEPT !.removed = FALSE])
        ELSE [pc |-> "delete", loc |-> [l EXCEPT !.dels = dels, !.removed = TRUE]]

\* main_borg: borg info.
ProbeRepository ==
    /\ pc = "probe"
    /\ LET natural == IF reach[Repository] THEN "ok" ELSE "fail"
       IN  \E o \in Outcomes(FALSE, natural) :
             /\ budget' = budget - Cost(o, natural)
             /\ calls' = Append(calls, Call("borg info", Repository, NoT, o))
             /\ IF o = "raise"
                THEN pc' = "aborted" /\ loc' = loc
                ELSE IF ~check_borg_repository(o)
                THEN pc' = NextRepository(loc).pc /\ loc' = NextRepository(loc).loc
                ELSE pc' = "list" /\ loc' = loc
    /\ UNCHANGED <<keeps, runs, disk, repo, reach, mnt>>

\* get_borg_archives: borg list, parse_archives; then the snapshots to back
\* up that the listing lacks, in the order of the snapshot dict.
ListArchives ==
    /\ pc = "list"
    /\ LET natural == IF reach[Repository] THEN "ok" ELSE "fail"
       IN  \E o \in Outcomes(FALSE, natural) :
             LET stdout == IF o = "ok" THEN ArchiveListing(repo[Repository]) ELSE <<>>
                 parsed == parse_archives(stdout, ArchPrefix)
             IN  /\ budget' = budget - Cost(o, natural)
                 /\ calls' = Append(calls, Call("borg list", Repository, NoT, o))
                 /\ IF o = "raise" \/ parsed.err
                    THEN pc' = "aborted" /\ loc' = loc
                    ELSE LET missing == DictFilter(loc.cands,
                                            LAMBDA dt : dt \notin DictKeys(parsed.pool))
                             l == [loc EXCEPT !.archives = parsed.pool,
                                              !.todo = [i \in DOMAIN missing |-> missing[i][2]]]
                         IN  IF l.todo # <<>>
                             THEN pc' = "prepare" /\ loc' = l
                             ELSE pc' = StartPruning(l).pc /\ loc' = StartPruning(l).loc
    /\ UNCHANGED <<keeps, runs, disk, repo, reach, mnt>>

\* create_borg_archive without the umount of what a mount point left behind
\* holds.
PrepareMountPointAsIs ==
    /\ pc = "prepare"
    /\ mnt' = [mnt EXCEPT !.dir = TRUE]
    /\ calls' = IF mnt.dir THEN calls
                ELSE Append(calls, Call("makedirs", Repository, Head(loc.todo).t, "ok"))
    /\ pc' = "mount"
    /\ budget' = budget
    /\ UNCHANGED <<keeps, runs, disk, repo, reach, loc>>

\* create_borg_archive, lines 453-458: umount what a mount point left behind
\* holds (check=False), or make the mount point (os.makedirs, dry run or not).
PrepareMountPoint ==
    /\ pc = "prepare"
    /\ IF mnt.dir
       THEN LET natural == IF mnt.mounts > 0 THEN "ok" ELSE "fail"
            IN  \E o \in Outcomes(args.dry_run, natural) :
                  /\ budget' = budget - Cost(o, natural)
                  /\ calls' = Append(calls, Call("umount", Repository, Head(loc.todo).t, o))
                  /\ mnt' = IF o = "ok" THEN [mnt EXCEPT !.mounts = mnt.mounts - 1] ELSE mnt
                  /\ pc' = IF o = "raise" THEN "aborted" ELSE "mount"
       ELSE /\ mnt' = [mnt EXCEPT !.dir = TRUE]
            /\ calls' = Append(calls, Call("makedirs", Repository, Head(loc.todo).t, "ok"))
            /\ pc' = "mount"
            /\ budget' = budget
    /\ UNCHANGED <<keeps, runs, disk, repo, reach, loc>>

\* os.path.exists of the configured paths under the mount point: nothing is
\* there when no snapshot is mounted; a mounted snapshot holds them, or lacks
\* one while the budget lasts.  A dry run does not look.
PathsFound(dry_run, mounts, left) ==
    IF dry_run THEN {TRUE}
    ELSE IF mounts = 0 THEN {FALSE}
    ELSE {TRUE} \cup (IF left > 0 THEN {FALSE} ELSE {})

\* create_borg_archive, lines 460-467: mount the snapshot; unless in a dry
\* run, look for the configured paths under the mount point (ValueError,
\* raised before the try statement is entered).
MountSnapshot ==
    /\ pc = "mount"
    /\ \E o \in Outcomes(args.dry_run, "ok") :
         LET mounts == IF o = "ok" THEN mnt.mounts + 1 ELSE mnt.mounts
             left == budget - Cost(o, "ok")
             mounted == Append(calls, Call("mount", Repository, Head(loc.todo).t, o))
         IN  \E found \in PathsFound(args.dry_run, mounts, left) :
               /\ budget' = IF o # "raise" /\ mounts > 0 /\ ~found THEN left - 1 ELSE left
               /\ mnt' = [mnt EXCEPT !.mounts = mounts]
               /\ IF o = "raise"
                  THEN calls' = mounted /\ pc' = "aborted"
                  ELSE IF ~args.dry_run /\ ~found
                  THEN /\ calls' = Append(mounted, Call("verify", Repository,
                                                       Head(loc.todo).t, "raise"))
                       /\ pc' = "aborted"
                  ELSE calls' = mounted /\ pc' = "create"
    /\ UNCHANGED <<keeps, runs, disk, repo, reach, loc>>

\* create_borg_archive, lines 469-489: borg create, named after the instant
\* parsed from the name of the snapshot.
CreateArchive ==
    /\ pc = "create"
    /\ LET dt == parse_suffix(Head(loc.todo), SnapPrefix).dt
           archive == Name(ArchPrefix, strftime(dt).form, strftime(dt).t)
           natural == IF reach[Repository] THEN "ok" ELSE "fail"
       IN  \E o \in Outcomes(args.dry_run, natural) :
             /\ budget' = budget - Cost(o, natural)
             /\ calls' = Append(calls, Call("borg create", Repository, archive.t, o))
             /\ repo' = IF o = "ok"
                        THEN [repo EXCEPT ![Repository] = @ \cup {archive}]
                        ELSE repo
             /\ loc' = [loc EXCEPT !.exc = (o = "raise")]
             /\ pc' = "umount"
    /\ UNCHANGED <<keeps, runs, disk, reach, mnt>>

\* create_borg_archive, the finally clause: umount, then os.rmdir (dry run
\* or not), which raises on a mount point still in use; then a pending
\* exception goes on, or the loop goes to the next snapshot.
UnmountSnapshot ==
    /\ pc = "umount"
    /\ LET natural == IF mnt.mounts > 0 THEN "ok" ELSE "fail"
       IN  \E o \in Outcomes(args.dry_run, natural) :
             LET mounts == IF o = "ok" THEN mnt.mounts - 1 ELSE mnt.mounts
                 t == Head(loc.todo).t
                 unmounted == Append(calls, Call("umount", Repository, t, o))
                 l == [loc EXCEPT !.todo = Tail(loc.todo), !.exc = FALSE]
             IN  /\ budget' = budget - Cost(o, natural)
                 /\ IF o = "raise"
                    THEN /\ calls' = unmounted /\ mnt' = mnt
                         /\ pc' = "aborted" /\ loc' = loc
                    ELSE IF mounts > 0 \/ ~mnt.dir
                    THEN /\ calls' = Append(unmounted, Call("rmdir", Repository, t, "raise"))
                         /\ mnt' = [mnt EXCEPT !.mounts = mounts]
                         /\ pc' = "aborted" /\ loc' = loc
                    ELSE /\ calls' = Append(unmounted, Call("rmdir", Repository, t, "ok"))
                         /\ mnt' = [dir |-> FALSE, mounts |-> mounts]
                         /\ IF loc.exc THEN pc' = "aborted" /\ loc' = loc
                            ELSE IF l.todo # <<>> THEN pc' = "prepare" /\ loc' = l
                            ELSE pc' = StartPruning(l).pc /\ loc' = StartPruning(l).loc
    /\ UNCHANGED <<keeps, runs, disk, repo, reach>>

\* prune_old_borg_archives: borg delete of the oldest archive left to delete.
DeleteArchive ==
    /\ pc = "delete"
    /\ LET dt == Head(loc.dels)[1]
           archive == Head(loc.dels)[2]
           natural == IF reach[Repository] /\ archive \in repo[Repository]
                      THEN "ok" ELSE "fail"
       IN  \E o \in Outcomes(args.dry_run, natural) :
             /\ budget' = budget - Cost(o, natural)
             /\ calls' = Append(calls, Call("borg delete", Repository, dt, o))
             /\ repo' = IF o = "ok"
                        THEN [repo EXCEPT ![Repository] = @ \ {archive}]
                        ELSE repo
             /\ IF o = "raise" THEN pc' = "aborted" /\ loc' = loc
                ELSE LET l == [loc EXCEPT !.dels = Tail(loc.dels)]
                     IN  IF l.dels # <<>> THEN pc' = "delete" /\ loc' = l
                         ELSE IF l.removed THEN pc' = "compact" /\ loc' = l
                         ELSE pc' = NextRepository(l).pc /\ loc' = NextRepository(l).loc
    /\ UNCHANGED <<keeps, runs, disk, reach, mnt>>

\* compact_borg_repository: borg compact.
CompactRepository ==
    /\ pc = "compact"
    /\ LET natural == IF reach[Repository] THEN "ok" ELSE "fail"
       IN  \E o \in Outcomes(args.dry_run, natural) :
             /\ budget' = budget - Cost(o, natural)
             /\ calls' = Append(calls, Call("borg compact", Repository, NoT, o))
             /\ IF o = "raise" THEN pc' = "aborted" /\ loc' = loc
                ELSE pc' = NextRepository(loc).pc /\ loc' = NextRepository(loc).loc
    /\ UNCHANGED <<keeps, runs, disk, repo, reach, mnt>>

\* The program is invoked again, any time later, with the same configuration
\* and flags of its own, after an invocation whose every command succeeded.
Succeeded(run) == \A i \in DOMAIN calls : calls[i].run = run => calls[i].res = "ok"

InvokeAgain ==
    /\ pc = "done" /\ runNo = 1 /\ Succeeded(1)
    /\ \E again \in [dry_run : {FALSE}, skip_snapshot : BOOLEAN] : runs' = Append(runs, again)
    /\ pc' = "start" /\ loc' = Loc0 /\ budget' = 0
    /\ UNCHANGED <<keeps, disk, repo, reach, mnt, calls>>

Next ==
    /\ UNCHANGED pvars
    /\ \/ MainBtrfsList
       \/ PreHook
       \/ CreateSnapshot
       \/ PostHook
       \/ DeleteSnapshot
       \/ MainBorg
       \/ ProbeRepository
       \/ ListArchives
       \/ PrepareMountPoint
       \/ MountSnapshot
       \/ CreateArchive
       \/ UnmountSnapshot
       \/ DeleteArchive
       \/ CompactRepository
       \/ InvokeAgain

Snapshots(T) == {Name(SnapPrefix, "canon", t) : t \in T}
Archives(T) == {Name(ArchPrefix, "canon", t) : t \in T}
RepoIds == Range(Repositories)
\* One rule: three that are backup-eligible, and one that is not.
KeepConfigs == {[interval |-> r[1], amount |-> r[2], backup |-> r[3]] :
                   r \in {<<1, 1, TRUE>>, <<2, 1, TRUE>>, <<1, 2, TRUE>>, <<1, 1, FALSE>>}}

\* Two rules of which only the coarser one is backup-eligible.
MixedKeeps == <<[interval |-> 1, amount |-> 2, backup |-> FALSE],
                [interval |-> 2, amount |-> 1, backup |-> TRUE]>>

\* The worlds an invocation starts in: any set of snapshots on the volume,
\* and one of these: every repository within reach and no mount point, both
\* repositories empty, holding archives of the two oldest instants, or
\* holding an archive of every instant; a mount point left by an earlier
\* invocation with a snapshot still mounted on it, both repositories empty
\* and within reach; the same mount point, the first repository out of
\* reach and both holding archives of the two oldest instants.
NoMountPoint == [dir |-> FALSE, mounts |-> 0]
StaleMount == [dir |-> TRUE, mounts |-> 1]
AllUp == [r \in RepoIds |-> TRUE]
FirstDown == [r \in RepoIds |-> r # Repositories[1]]
Worlds ==
    {<<AllUp, NoMountPoint, A>> : A \in {Archives({}), Archives({0, 1}), Archives(Ticks)}}
    \cup {<<AllUp, StaleMount, Archives({})>>, <<FirstDown, StaleMount, Archives({0, 1})>>}

Init ==
    /\ fn = "main" /\ arg = <<>> /\ ret = [done |-> FALSE]
    /\ keeps \in {<<k>> : k \in KeepConfigs} \cup {MixedKeeps}
    /\ runs \in {<<first>> : first \in [dry_run : BOOLEAN, skip_snapshot : BOOLEAN]}
    /\ disk \in {Snapshots(T) : T \in SUBSET Ticks}
    /\ \E w \in Worlds :
         /\ reach = w[1] /\ mnt = w[2]
         /\ repo = [r \in RepoIds |-> w[3]]
    /\ budget = MaxFaults
    /\ pc = "start" /\ loc = Loc0 /\ calls = <<>>

Spec == Init /\ [][Next]_vars

(***************************************************************************)
(* Claims about the retention functions and the parsers (SpecPure).        *)
(***************************************************************************)
\* Bucket b of a rule holds the instants t with
\* origin + b*interval <= t < origin + (b+1)*interval.
InBucket(t, b, o, interval) == o + b * interval <= t /\ t < o + (b + 1) * interval
Abs(n) == IF n < 0 THEN 0 - n ELSE n
IndexRange(avail, o) ==
    LET m == CHOOSE n \in {Abs(t - o) : t \in avail} \cup {0} :
                 \A k \in {Abs(t - o) : t \in avail} \cup {0} : k <= n
    IN  (0 - m - 1)..(m + 1)
BucketsOf(avail, o, interval) ==
    {b \in IndexRange(avail, o) : \E t \in avail : InBucket(t, b, o, interval)}
Members(avail, b, o, interval) == {t \in avail : InBucket(t, b, o, interval)}
Earliest(S) == CHOOSE x \in S : \A y \in S : x <= y
\* The earliest instant of every non-empty bucket.
EarliestPerBucket(avail, o, interval) ==
    {Earliest(Members(avail, b, o, interval)) : b \in BucketsOf(avail, o, interval)}
\* The earliest instant of each of the `amount` most recent non-empty buckets.
ExpectedOfRule(avail, o, interval, amount) ==
    LET B == BucketsOf(avail, o, interval)
        recent == {b \in B : Cardinality({c \in B : c > b}) < amount}
    IN  {Earliest(Members(avail, b, o, interval)) : b \in recent}

GfsDone == fn = "grandfatherson" /\ ret.done
SelDone == fn = "select_relevant" /\ ret.done

\* C1: grandfatherson returns a partition of the available instants: keep and
\* prune together are the set of available instants, and they share nothing.
C1_Partition ==
    GfsDone =>
        /\ ret.val.keep \cup ret.val.prune = Range(arg.available)
        /\ ret.val.keep \cap ret.val.prune = {}

C1_Witness ==
    /\ GfsDone /\ Len(arg.keeps) = 2
    /\ \A i \in 1..2 : arg.keeps[i][2] >= 1
    /\ ret.val.keep # {} /\ ret.val.prune # {}

\* C2: of a bucket that holds two or more available instants, select_relevant
\* returns no instant but the earliest, in whatever order they are listed.
C2_OldestOfBucket ==
    SelDone =>
        \A x \in Range(ret.val) : \A y \in Range(arg.available) :
            (\E b \in IndexRange(Range(arg.available), arg.origin) :
                /\ InBucket(x, b, arg.origin, arg.interval)
                /\ InBucket(y, b, arg.origin, arg.interval)) => x <= y

\* A bucket listed newest first, before the origin, whose earliest instant is returned.
C2_Witness ==
    /\ SelDone /\ arg.interval = 2 /\ arg.origin = 1 /\ arg.amount = 1
    /\ arg.available = <<0, 0 - 1>>
    /\ ret.val = <<0 - 1>>

RuleExceedsBuckets(r) ==
    r[2] > Cardinality(BucketsOf(Range(arg.available), arg.origin, r[1]))

\* C3 as stated: a rule whose amount exceeds the number of buckets makes
\* grandfatherson keep every available instant and prune nothing.
C3_AllKept ==
    GfsDone =>
        \A i \in DOMAIN arg.keeps :
            RuleExceedsBuckets(arg.keeps[i]) =>
                ret.val.keep = Range(arg.available) /\ ret.val.prune = {}

\* C3, amended: a rule whose amount exceeds the number of buckets makes
\* grandfatherson keep the earliest instant of every bucket of that rule;
\* what is pruned shares a bucket of that rule with an earlier instant, so
\* that nothing is pruned when no bucket holds two distinct instants.
C3_EveryBucketKept ==
    GfsDone =>
        \A i \in DOMAIN arg.keeps :
            RuleExceedsBuckets(arg.keeps[i]) =>
                LET avail == Range(arg.available)
                    interval == arg.keeps[i][1]
                IN  /\ EarliestPerBucket(avail, arg.origin, interval) \subseteq ret.val.keep
                    /\ \A p \in ret.val.prune : \E t \in avail :
                           /\ t < p
                           /\ \E b \in IndexRange(avail, arg.origin) :
                                  /\ InBucket(t, b, arg.origin, interval)
                                  /\ InBucket(p, b, arg.origin, interval)
                    /\ (Cardinality(BucketsOf(avail, arg.origin, interval)) = Cardinality(avail)
                            => ret.val.keep = avail /\ ret.val.prune = {})

\* Two buckets, one of them shared, and an amount of three.
C3_Witness ==
    /\ GfsDone /\ arg.keeps = << <<2, 3>> >> /\ arg.origin = 0
    /\ arg.available = <<0, 1, 2>>
    /\ ret.val.keep = {0, 2} /\ ret.val.prune = {1}

\* C4: with rules of amount >= 1, keep is the union over the rules of the
\* earliest instant of each of the `amount` most recent non-empty buckets,
\* and prune is every other available instant; with no rule keep is empty.
C4_KeepIsUnionOfRules ==
    (GfsDone /\ \A i \in DOMAIN arg.keeps : arg.keeps[i][2] >= 1) =>
        LET avail == Range(arg.available)
            expected == UNION {ExpectedOfRule(avail, arg.origin,
                                              arg.keeps[i][1], arg.keeps[i][2]) :
                               i \in DOMAIN arg.keeps}
        IN  /\ ret.val.keep = expected
            /\ ret.val.prune = avail \ expected
            /\ (arg.keeps = <<>> => ret.val.keep = {} /\ ret.val.prune = avail)

\* The ten-minute example of the specification: 16:55, 17:21 and 17:32 are kept.
C4_Witness ==
    /\ GfsDone /\ arg = TenMinutely
    /\ ret.val.keep = {25, 51, 62}
    /\ ret.val.prune = {5, 15, 27, 55}

\* C8: parse_subvolumes raises when the last word of a line has the prefix
\* and a suffix that does not parse; parse_archives raises when the first
\* word of a non-empty line lacks the prefix or has a suffix that does not
\* parse; a call that raises returns no pool.
C8_MalformedIsFatal ==
    /\ (fn = "parse_subvolumes" /\ ret.done) =>
          ((\E i \in DOMAIN arg.output :
               /\ Len(arg.output[i]) > 0
               /\ arg.output[i][Len(arg.output[i])].pfx = arg.prefix
               /\ arg.output[i][Len(arg.output[i])].form = "bad")
           => ret.val.err /\ "pool" \notin DOMAIN ret.val)
    /\ (fn = "parse_archives" /\ ret.done) =>
          ((\E i \in DOMAIN arg.output :
               /\ Len(arg.output[i]) > 0
               /\ (arg.output[i][1].pfx # arg.prefix \/ arg.output[i][1].form = "bad"))
           => ret.val.err /\ "pool" \notin DOMAIN ret.val)

\* A well-formed snapshot line followed by a malformed one (test_parse_subvolumes2).
C8_Witness ==
    /\ fn = "parse_subvolumes" /\ ret.done
    /\ arg.output = << <<Name(ArchPrefix, "canon", 0), Name(SnapPrefix, "canon", 0)>>,
                       <<Name(SnapPrefix, "bad", 0)>> >>
    /\ ret.val.err

(***************************************************************************)
(* Claims about the invocations of main (Spec).                            *)
(***************************************************************************)
\* The entries of the log that invocation n wrote, by position.
CallsOf(n) == {i \in DOMAIN calls : calls[i].run = n}
Issued(n, ops) == {i \in CallsOf(n) : calls[i].op \in ops}
SnapshotChanges == {"subvolume snapshot", "subvolume delete"}
ArchiveChanges == {"borg create", "borg delete", "borg compact"}
ArchiveOps == {"borg info", "borg list", "umount", "makedirs", "mount", "verify",
               "borg create", "rmdir", "borg delete", "borg compact"}
\* What the rules with backup = true keep of a set of instants.
BackupKeep(avail) ==
    UNION {ExpectedOfRule(avail, TimeOrigin, keeps[k].interval, keeps[k].amount) :
              k \in {j \in DOMAIN keeps : keeps[j].backup}}
Latest(d) == MaxOf(DictKeys(d))
\* main_borg was entered with a pool whose latest instant the
\* backup-eligible rules do not keep.
LatestNotBackedUp ==
    /\ loc.phase = "borg"
    /\ Latest(loc.snapshots) \notin BackupKeep(DictKeys(loc.snapshots))

\* C5: when the latest instant of the pool handed to the archive phase is
\* not in the keep set of the backup-eligible rules, the archive phase
\* issues no archive create, no archive delete, no compact and no mount on
\* any repository.
C5_NoBackupOfStalePool ==
    (pc # "idle" /\ LatestNotBackedUp)
        => Issued(runNo, ArchiveChanges \cup {"mount"}) = {}

\* The case of C5 with something to do had the guard let it through: the
\* rule is backup-eligible and keeps an older instant, no repository holds
\* an archive of it, and the invocation ended.
C5_Witness ==
    /\ pc = "done" /\ LatestNotBackedUp
    /\ BackupKeep(DictKeys(loc.snapshots)) # {}
    /\ \A r \in RepoIds : repo[r] = {}
    /\ ~args.skip_snapshot /\ ~args.dry_run

\* The second invocation makes no new snapshot: it was told to skip it, or
\* its candidate is not kept.
SecondWithoutNewSnapshot == runNo = 2 /\ loc.kept \in {"skip", "no"}
SecondChangesNothing ==
    Issued(2, SnapshotChanges \cup ArchiveChanges) = {}

Unreachable == {r \in RepoIds : ~reach[r]}
Ended == pc \in {"done", "aborted"}
\* The archives of repository r are those of the snapshots to back up.
Reconciled(r) == {a.t : a \in repo[r]} = DictKeys(loc.cands)
\* Every command that invocation n issued, those on behalf of the
\* repositories in U aside, ended well.
NoFailureBeside(n, U) ==
    \A i \in CallsOf(n) : calls[i].repo \notin U => calls[i].res \in {"ok", "skip"}

\* C7 as stated: when one repository of the list is unreachable, every other
\* repository is still probed, listed and reconciled, and gets the creates,
\* deletes and compact it would get were the unreachable one not configured:
\* once the invocation has ended, its archives are those of the snapshots to
\* back up (in a dry run: it was probed and listed), and the unreachable
\* repository got no create, delete or compact.  No command failed but for
\* the repository being out of reach.
C7_UnreachableIsSkipped ==
    (/\ pc # "idle" /\ Ended /\ loc.phase = "borg" /\ loc.r >= 1
     /\ Cardinality(Unreachable) = 1
     /\ budget = MaxFaults
     /\ NoFailureBeside(runNo, Unreachable))
        => /\ \A r \in RepoIds \ Unreachable :
                /\ \E i \in Issued(runNo, {"borg info"}) : calls[i].repo = r
                /\ \E i \in Issued(runNo, {"borg list"}) : calls[i].repo = r
                /\ ~args.dry_run => Reconciled(r)
           /\ \A i \in Issued(runNo, ArchiveChanges \cup {"mount"}) :
                calls[i].repo \notin Unreachable

\* C9 as stated: once the snapshot create command or a snapshot delete
\* command has failed (a non-zero exit status, or it could not be started),
\* the invocation issues no further snapshot deletion and nothing of the
\* archive phase.
C9_SnapshotPhaseFailFast ==
    \A i \in DOMAIN calls :
        (calls[i].op \in SnapshotChanges /\ calls[i].res \in {"fail", "raise"})
            => \A j \in DOMAIN calls :
                   (j > i /\ calls[j].run = calls[i].run)
                       => calls[j].op \notin {"subvolume delete"} \cup ArchiveOps

\* create_btrfs_snapshot was entered by the invocation under way, and left.
InCreatePath == pc \in {"pre", "snapshot", "post"}
LeftCreatePath == pc # "idle" /\ loc.kept = "yes" /\ ~InCreatePath
\* Post-hook k of the invocation under way was issued (in a dry run: logged
\* as skipped, like every command), after its pre-hooks and its creation.
PostHookIssued(k) ==
    \E i \in Issued(runNo, {"post"}) :
        /\ calls[i].t = k
        /\ \A j \in Issued(runNo, {"pre", "subvolume snapshot"}) : j < i
\* A post-hook before k could not be started, which ends the list.
PostHookRaisedBefore(k) ==
    \E i \in Issued(runNo, {"post"}) : calls[i].t < k /\ calls[i].res = "raise"
PostHooksDone == \A k \in 1..NPost : PostHookIssued(k) \/ PostHookRaisedBefore(k)

\* C10: in every invocation whose candidate is kept, the post-hooks have
\* been executed by the time create_btrfs_snapshot is left, on every exit
\* path: after a creation that succeeded, after one that failed and after a
\* pre-hook that failed.  (A post-hook that cannot be started ends the list.)
C10_PostHooksOnEveryExit ==
    LeftCreatePath => PostHooksDone

\* The case of C10 happened: a pre-hook could not be started, no creation
\* was issued, every post-hook was run and the invocation ended in error.
C10_Witness ==
    /\ pc = "aborted" /\ loc.kept = "yes"
    /\ \E i \in Issued(runNo, {"pre"}) : calls[i].res = "raise"
    /\ Issued(runNo, {"subvolume snapshot"}) = {}
    /\ \A k \in 1..NPost : PostHookIssued(k)
\* The same after a creation that could not be started.
C10_WitnessFailedCreation ==
    /\ pc = "aborted" /\ loc.kept = "yes"
    /\ \E i \in Issued(runNo, {"subvolume snapshot"}) : calls[i].res = "raise"
    /\ \A k \in 1..NPost : PostHookIssued(k)

\* Mount i of the log was undone: an umount that succeeded and then the
\* removal of the mount point follow it, before any other mount.
Undone(i) ==
    \E j, k \in Issued(calls[i].run, {"umount", "rmdir"}) :
        /\ i < j /\ j < k
        /\ calls[j].op = "umount" /\ calls[j].res = "ok"
        /\ calls[k].op = "rmdir" /\ calls[k].res = "ok"
        /\ \A m \in Issued(calls[i].run, {"mount"}) : ~(i < m /\ m < k)
MountsMade(n) == {i \in Issued(n, {"mount"}) : calls[i].res = "ok"}
NoUmountFailed(n) ==
    \A i \in Issued(n, {"umount"}) : calls[i].res \notin {"fail", "raise"}

\* C11 as stated: every attempt to create an archive that mounted the
\* snapshot unmounts it and then removes the mount point before it ends, in
\* success, after a failed verification of the paths and after a failed
\* creation, so that an invocation that has ended (no umount command of its
\* own having failed) leaves no mount that it made.
C11_MountCleanup ==
    (pc # "idle" /\ Ended /\ NoUmountFailed(runNo))
        => \A i \in MountsMade(runNo) : Undone(i)

RepoPos(r) == CHOOSE k \in DOMAIN Repositories : Repositories[k] = r
Probed(n, r) == \E i \in Issued(n, {"borg info"}) : calls[i].repo = r
\* The failures of the archive phase on a repository within reach: the
\* listing, the verification of the paths, the creation.
ArchiveFailures(n) ==
    {i \in Issued(n, {"borg list", "verify", "borg create"}) :
        calls[i].res \in {"fail", "raise"} /\ reach[calls[i].repo]}

\* C12 as stated: when the listing, the verification of the paths or the
\* creation of an archive fails for a repository, no further snapshot is
\* mounted or archived for that repository, and every repository configured
\* after it is still probed by the time the invocation has ended.
C12_FailureScopedToRepository ==
    (pc # "idle" /\ Ended)
        => \A i \in ArchiveFailures(runNo) :
              /\ \A j \in Issued(runNo, {"mount", "borg create"}) :
                    j > i => calls[j].repo # calls[i].repo
              /\ \A r \in RepoIds :
                    RepoPos(r) > RepoPos(calls[i].repo) => Probed(runNo, r)

\* The commands that only read: they are run in a dry run too.
Queries == {"subvolume list", "borg info", "borg list"}

\* C13 as stated: in a dry run nothing outside the program changes and no
\* action fails, whatever the world at the start: everything the invocation
\* does beside its queries is skipped.
C13_DryRunChangesNothing ==
    (pc # "idle" /\ args.dry_run)
        => \A i \in CallsOf(runNo) :
              calls[i].op \notin Queries => calls[i].res = "skip"

\* C14 as stated: after a probe of a repository that exits with a non-zero
\* status, the invocation issues no list, mount, archive create, archive
\* delete or compact for that repository.
C14_FailedProbeSkipsRepository ==
    \A i \in DOMAIN calls :
        (calls[i].op = "borg info" /\ calls[i].res = "fail")
            => \A j \in Issued(calls[i].run, {"borg list", "mount"} \cup ArchiveChanges) :
                   calls[j].repo # calls[i].repo

\* What all the rules keep of a set of instants.
AllKeep(avail) ==
    UNION {ExpectedOfRule(avail, TimeOrigin, keeps[k].interval, keeps[k].amount) :
              k \in DOMAIN keeps}
AscendingSeq(S) ==
    [i \in 1..Cardinality(S) |-> CHOOSE x \in S : Cardinality({y \in S : y < x}) = i - 1]
\* The instants of the snapshot deletions of invocation n, in the order of
\* the log.
DeleteSeq(n) ==
    LET dels == SelectSeq(calls, LAMBDA c : c.run = n /\ c.op = "subvolume delete")
    IN  [i \in DOMAIN dels |-> dels[i].t]
\* The working pool of the invocation under way (the listed instants and the
\* candidate), and what of it is to be pruned.
WorkingPool == DictKeys(loc.snapshots) \cup Range(DeleteSeq(runNo)) \cup {loc.new_subvol.t}
PruneSet == (WorkingPool \ AllKeep(WorkingPool)) \ {loc.new_subvol.t}
SnapshotPhaseOver == loc.phase = "borg" \/ pc = "borg" \/ pc = "done"

\* C15: whatever the order of the listing, the snapshot deletions of an
\* invocation are issued in ascending order of instant: at any time they are
\* the first instants of the prune set sorted ascending, and all of it once
\* the snapshot phase is over.  The log only grows and the archive phase
\* deletes no snapshot, so it is judged during the snapshot phase and at the
\* end of the invocation.
C15_DeletionsAscending ==
    (pc # "idle" /\ loc.kept \in {"yes", "no"} /\ (loc.phase = "btrfs" \/ pc = "done"))
        => LET seq == DeleteSeq(runNo)
               expected == AscendingSeq(PruneSet)
           IN  /\ Len(seq) <= Len(expected)
               /\ \A k \in 1..Len(seq) : seq[k] = expected[k]
               /\ SnapshotPhaseOver => seq = expected

\* The case of C15 happened: an invocation deleted two snapshots, kept
\* another and ended.
C15_Witness ==
    /\ pc = "done" /\ loc.kept \in {"yes", "no"}
    /\ Len(DeleteSeq(runNo)) = 2
    /\ Len(loc.snapshots) >= 1

NoFailure(n) == \A i \in CallsOf(n) : calls[i].res \in {"ok", "skip"}
OnRepo(n, r, ops) == {i \in Issued(n, ops) : calls[i].repo = r}
\* The instants of the archives that repository r held when the invocation
\* under way listed it: what it holds now, less what the invocation added,
\* plus what it removed.
ListedPool(r) ==
    ({a.t : a \in repo[r]}
        \ {calls[i].t : i \in {j \in OnRepo(runNo, r, {"borg create"}) : calls[j].res = "ok"}})
    \cup {calls[i].t : i \in {j \in OnRepo(runNo, r, {"borg delete"}) : calls[j].res = "ok"}}
Listed(r) == OnRepo(runNo, r, {"borg list"}) # {}
\* The creations for repository r are over, or all its work is.
CreationsOver(r) ==
    /\ loc.phase = "borg" /\ loc.r >= 1
    /\ \/ RepoPos(r) < loc.r
       \/ RepoPos(r) = loc.r /\ pc \in {"delete", "compact", "done"}
WorkOver(r) ==
    /\ loc.phase = "borg" /\ loc.r >= 1
    /\ \/ RepoPos(r) < loc.r
       \/ RepoPos(r) = loc.r /\ pc = "done"
ToCreate(r) == BackupKeep(DictKeys(loc.snapshots)) \ ListedPool(r)
\* The mount that came last before entry i of the log.
LastMountBefore(i) ==
    CHOOSE j \in Issued(calls[i].run, {"mount"}) :
        j < i /\ \A m \in Issued(calls[i].run, {"mount"}) : m < i => m <= j

\* C16: for a repository within reach, in an invocation no action of which
\* fails, an archive is created once for every instant that the
\* backup-eligible rules keep and the listing of the repository lacks, for
\* no other instant, and under the instant of the snapshot mounted for it.
C16_CreatesWhatIsMissing ==
    (pc # "idle" /\ loc.phase = "borg" /\ NoFailure(runNo))
        => \A r \in {q \in RepoIds : reach[q] /\ Listed(q)} :
              LET creates == OnRepo(runNo, r, {"borg create"})
              IN  /\ \A i \in creates : calls[i].t \in ToCreate(r)
                  /\ \A i, j \in creates : calls[i].t = calls[j].t => i = j
                  /\ \A i \in creates :
                        /\ \E j \in Issued(runNo, {"mount"}) : j < i
                        /\ calls[LastMountBefore(i)].t = calls[i].t
                        /\ calls[LastMountBefore(i)].repo = r
                  /\ CreationsOver(r) => {calls[i].t : i \in creates} = ToCreate(r)

\* The case of C16 happened: a repository within reach got an archive of an
\* instant it lacked and none of a kept instant it held, and the invocation
\* ended without a failure.
C16_Witness ==
    /\ pc = "done" /\ loc.phase = "borg" /\ NoFailure(runNo) /\ ~args.dry_run
    /\ \E r \in RepoIds :
          /\ reach[r] /\ Listed(r)
          /\ OnRepo(runNo, r, {"borg create"}) # {}
          /\ BackupKeep(DictKeys(loc.snapshots)) \cap ListedPool(r) # {}

\* The instants of the archive deletions of invocation n on repository r, in
\* the order of the log.
ArchiveDeleteSeq(n, r) ==
    LET dels == SelectSeq(calls, LAMBDA c : c.run = n /\ c.op = "borg delete" /\ c.repo = r)
    IN  [i \in DOMAIN dels |-> dels[i].t]
ToDelete(r) == ListedPool(r) \ BackupKeep(DictKeys(loc.snapshots))
DeletionsOver(r) ==
    /\ loc.phase = "borg" /\ loc.r >= 1
    /\ \/ RepoPos(r) < loc.r
       \/ RepoPos(r) = loc.r /\ pc \in {"compact", "done"}

\* C17: for a repository within reach, in an invocation no action of which
\* fails, the archives deleted are the listed ones whose instant the
\* backup-eligible rules do not keep, oldest first, and every creation for
\* the repository comes before its first deletion.
C17_DeletesWhatIsNotKept ==
    (pc # "idle" /\ loc.phase = "borg" /\ NoFailure(runNo))
        => \A r \in {q \in RepoIds : reach[q] /\ Listed(q)} :
              LET seq == ArchiveDeleteSeq(runNo, r)
                  expected == AscendingSeq(ToDelete(r))
              IN  /\ Len(seq) <= Len(expected)
                  /\ \A k \in 1..Len(seq) : seq[k] = expected[k]
                  /\ DeletionsOver(r) => seq = expected
                  /\ \A i \in OnRepo(runNo, r, {"borg create"}) :
                        \A j \in OnRepo(runNo, r, {"borg delete"}) : i < j

\* The case of C17 happened: a repository got a new archive and then lost
\* two old ones, and the invocation ended without a failure.
C17_Witness ==
    /\ pc = "done" /\ loc.phase = "borg" /\ NoFailure(runNo) /\ ~args.dry_run
    /\ \E r \in RepoIds :
          /\ reach[r]
          /\ OnRepo(runNo, r, {"borg create"}) # {}
          /\ Len(ArchiveDeleteSeq(runNo, r)) = 2

\* C18: a repository is compacted in an invocation if and only if an archive
\* of it was deleted in that invocation, once, and after the last deletion:
\* a compact has a deletion before it and none after it, and a repository
\* whose work is over has been compacted if it had a deletion.
C18_CompactIffDeleted ==
    pc # "idle"
        => \A r \in RepoIds :
              LET compacts == OnRepo(runNo, r, {"borg compact"})
                  deletes == OnRepo(runNo, r, {"borg delete"})
              IN  /\ \A c \in compacts :
                        /\ deletes # {}
                        /\ \A d \in deletes : d < c
                  /\ \A c, e \in compacts : c = e
                  /\ WorkOver(r) => (deletes # {} => compacts # {})

\* The case of C18 happened: of two repositories whose work is over, one had
\* deletions and was compacted, the other had none and was not.
C18_Witness ==
    /\ pc = "done" /\ loc.phase = "borg"
    /\ \E r, q \in RepoIds :
          /\ WorkOver(r) /\ WorkOver(q)
          /\ OnRepo(runNo, r, {"borg delete"}) # {}
          /\ OnRepo(runNo, r, {"borg compact"}) # {}
          /\ Listed(q)
          /\ OnRepo(runNo, q, {"borg delete"}) = {}
          /\ OnRepo(runNo, q, {"borg compact"}) = {}

FailedPostHooks == {i \in Issued(runNo, {"post"}) : calls[i].res \in {"fail", "raise"}}

\* C19 as stated: when a post-hook fails, the remaining post-hooks are
\* attempted all the same, and the invocation then ends in error: once
\* create_btrfs_snapshot is left after a post-hook that failed, every
\* post-hook was issued and the invocation goes no further.
C19_PostHookFailureSurfaced ==
    (LeftCreatePath /\ FailedPostHooks # {})
        => /\ \A k \in 1..NPost : PostHookIssued(k)
           /\ pc = "aborted"

OnDisk == {sn.t : sn \in disk}
\* The invocation under way was told to skip the new snapshot, and its
\* listing succeeded.
SkippedSnapshot ==
    /\ pc # "idle" /\ args.skip_snapshot /\ loc.kept = "skip"
    /\ \A i \in Issued(runNo, {"subvolume list"}) : calls[i].res = "ok"
NoSnapshotWork == Issued(runNo, {"pre", "post"} \cup SnapshotChanges) = {}

\* C20 as stated: with the skip flag the snapshot phase makes no candidate
\* and creates nothing, but prunes: the pool it returns is what all the
\* rules keep of the listed pool.
C20_SkipStillPrunes ==
    SkippedSnapshot
        => /\ Issued(runNo, {"pre", "post", "subvolume snapshot"}) = {}
           /\ DictKeys(loc.snapshots) = AllKeep(OnDisk \cup Range(DeleteSeq(runNo)))

\* C20, amended: with the skip flag the snapshot phase makes no candidate,
\* creates nothing and deletes nothing: no hook, creation or deletion is
\* issued, and the pool it returns is the listed pool.
C20_SkipLeavesPool ==
    SkippedSnapshot
        => /\ NoSnapshotWork
           /\ DictKeys(loc.snapshots) = OnDisk

\* The case of C20 happened: the flag was set, the rules do not keep all of
\* the listed pool, and the invocation went through the archive phase.
C20_Witness ==
    /\ SkippedSnapshot /\ pc = "done" /\ loc.phase = "borg"
    /\ OnDisk # {} /\ AllKeep(OnDisk) # OnDisk

Candidate == loc.new_subvol.t
\* The instants the listing of the invocation under way named, when it
\* created nothing: those on the volume and those it has deleted since; a
\* listing command that failed named nothing.
ListedInstants ==
    IF \E i \in Issued(runNo, {"subvolume list"}) : calls[i].res # "ok"
    THEN {}
    ELSE OnDisk \cup {calls[i].t : i \in {j \in Issued(runNo, {"subvolume delete"}) :
                                             calls[j].res = "ok"}}

\* C21: a candidate that is not kept is neither created nor deleted: no
\* pre-hook, creation or post-hook is issued, the candidate is not in the
\* working pool any more, and every snapshot deletion of the invocation is
\* of a listed instant other than the candidate's.
C21_UnkeptCandidateUntouched ==
    (pc # "idle" /\ loc.kept = "no")
        => /\ Issued(runNo, {"pre", "post", "subvolume snapshot"}) = {}
           /\ Candidate \notin DictKeys(loc.snapshots)
           /\ \A i \in Issued(runNo, {"subvolume delete"}) :
                 calls[i].t # Candidate /\ calls[i].t \in ListedInstants

\* The case of C21 happened: the candidate was not kept, the rules pruned a
\* listed snapshot, and the invocation ended.
C21_Witness ==
    /\ pc = "done" /\ loc.kept = "no" /\ ~args.dry_run
    /\ \E i \in Issued(runNo, {"subvolume delete"}) : calls[i].res = "ok"
    /\ Candidate \notin OnDisk

(***************************************************************************)
(* Further claims about the retention functions (SpecPure).                *)
(***************************************************************************)
\* C22: the bucket index is a floor, before the origin as after it: for
\* every available instant t the index b of its bin satisfies
\* origin + b*interval <= t < origin + (b+1)*interval; an instant before the
\* origin and one at or after it never share a bin, and when the amount
\* covers every bucket both sides of the origin are represented in the
\* result.
C22_FloorBucketing ==
    SelDone =>
        LET avail == Range(arg.available)
            idx(t) == BinIdx(t, arg.origin, arg.interval)
        IN  /\ \A t \in avail : InBucket(t, idx(t), arg.origin, arg.interval)
            /\ \A t, u \in avail : (t < arg.origin /\ arg.origin <= u) => idx(t) < idx(u)
            /\ \A t, u \in avail :
                  (/\ t < arg.origin /\ arg.origin <= u
                   /\ arg.amount >= Cardinality(BucketsOf(avail, arg.origin, arg.interval)))
                      => /\ \E x \in Range(ret.val) : x < arg.origin
                         /\ \E x \in Range(ret.val) : x >= arg.origin

\* The case of C22 happened: an instant that a truncating division would
\* put in bin 0 with the origin, and both are returned.
C22_Witness ==
    /\ SelDone /\ arg.interval = 2 /\ arg.origin = 1 /\ arg.amount = 2
    /\ arg.available = <<0, 1>>
    /\ ret.val = <<0, 1>>

(***************************************************************************)
(* Further claims about the invocations of main (Spec).                    *)
(***************************************************************************)
\* Between two mounts of one invocation that succeeded, an umount succeeded.
MountsOk == {i \in DOMAIN calls : calls[i].op = "mount" /\ calls[i].res = "ok"}
UnmountedBetweenMounts ==
    \A i, k \in MountsOk :
        (i < k /\ calls[i].run = calls[k].run)
            => \E j \in (i + 1)..(k - 1) :
                   calls[j].op = "umount" /\ calls[j].res = "ok"
NoUmountFailedEver ==
    \A i \in DOMAIN calls : calls[i].op = "umount" => calls[i].res \notin {"fail", "raise"}

ListedBefore == ListedInstants \ {Candidate}
\* A listed snapshot lies in the candidate's bucket of rule k.
BucketOccupied(k) ==
    \E t \in ListedBefore :
        \E b \in IndexRange(ListedBefore \cup {Candidate}, TimeOrigin) :
            /\ InBucket(t, b, TimeOrigin, keeps[k].interval)
            /\ InBucket(Candidate, b, TimeOrigin, keeps[k].interval)
\* The candidate is later than every listed snapshot (judged during the
\* snapshot phase and at the end of the invocation: the archive phase
\* creates no snapshot).
CandidateIsLatest ==
    /\ pc # "idle" /\ loc.kept \in {"yes", "no"}
    /\ (loc.phase = "btrfs" \/ pc = "done")
    /\ \A t \in ListedBefore : t < Candidate
    /\ \A k \in DOMAIN keeps : keeps[k].amount >= 1
PreHookRaised == \E i \in Issued(runNo, {"pre"}) : calls[i].res = "raise"

\* C24: a candidate later than every listed snapshot is kept if and only
\* if, for some rule, no listed snapshot lies in the candidate's bucket of
\* that rule; when it is not kept no creation is issued, and when it is, the
\* creation is issued by the time create_btrfs_snapshot is left (unless a
\* pre-hook could not be started).
C24_KeptIffBucketFree ==
    CandidateIsLatest
        => /\ loc.kept = "yes" <=> (\E k \in DOMAIN keeps : ~BucketOccupied(k))
           /\ loc.kept = "no" => Issued(runNo, {"subvolume snapshot"}) = {}
           /\ (loc.kept = "yes" /\ LeftCreatePath /\ ~PreHookRaised)
                 => Issued(runNo, {"subvolume snapshot"}) # {}

\* The cases of C24 happened: with two rules, a candidate kept because the
\* bucket of one rule was free while the other's was occupied.
C24_Witness ==
    /\ CandidateIsLatest /\ loc.kept = "yes" /\ pc = "done" /\ ~args.dry_run
    /\ Len(keeps) = 2
    /\ \E k \in DOMAIN keeps : BucketOccupied(k)
    /\ ListedBefore # {}
    /\ \E i \in Issued(runNo, {"subvolume snapshot"}) : calls[i].res = "ok"
\* A candidate not kept because every rule's bucket was occupied.
C24_WitnessOccupied ==
    /\ CandidateIsLatest /\ loc.kept = "no" /\ pc = "done"
    /\ \A k \in DOMAIN keeps : BucketOccupied(k)

CreatedOk == {calls[i].t : i \in {j \in Issued(runNo, {"subvolume snapshot"}) :
                                     calls[j].res = "ok"}}
\* The instants the listing named, whatever the invocation created since.
ListedAtStart == ListedInstants \ CreatedOk

\* C25 as stated: no creation is issued for a name that the listing named;
\* when the candidate's instant is that of a listed snapshot, no creation is
\* issued and the listed snapshot is pruned like any other: it is deleted,
\* in an invocation without a failure, if the rules do not keep it.
C25_NoCreateOverListed ==
    (pc # "idle" /\ loc.kept \in {"yes", "no"})
        => /\ \A i \in Issued(runNo, {"subvolume snapshot"}) : calls[i].t \notin ListedAtStart
           /\ (/\ Candidate \in ListedAtStart
               /\ Candidate \notin AllKeep(ListedAtStart)
               /\ SnapshotPhaseOver /\ NoFailure(runNo))
                 => Candidate \in Range(DeleteSeq(runNo))

\* C26 as stated (SpecPure): select_relevant returns at most `amount`
\* instants, for every amount from 0 on, so that an amount of 0 keeps
\* nothing.
C26_AtMostAmount ==
    SelDone => Len(ret.val) <= arg.amount

=============================================================================
